---- MODULE Spec2Model ----
(***************************************************************************)
(* Model of the generic object pool of collection-pool (src/lib.rs,        *)
(* src/sync.rs): Pool<T, M> with its idle sequence `vacant` behind an      *)
(* InnerMut storage, Pool::get / prewarm / pool_size and the Drop of the   *)
(* Pooled handle.  The storage modelled is the shared variant,             *)
(* Mutex<Vec<T>>: inner_mut() blocks until the mutex is free and returns   *)
(* Err when the mutex is poisoned (a thread panicked while holding the     *)
(* guard).  The only place where code of T runs while the guard is held is *)
(* T::default() in prewarm's loop, so that is where a panic poisons.       *)
(* The single-owner variant, RefCell<Vec<T>>, is modelled by RefSpec, a    *)
(* second pool used next to the first by PoolsSpec.                        *)
(*                                                                         *)
(* What a thread does outside the mutex (default-constructing, clearing    *)
(* and wrapping an instance it alone owns, taking the item out of its own  *)
(* handle) touches nothing another thread can see, so it is folded into    *)
(* the adjacent step that takes or releases the guard.                     *)
(***************************************************************************)
EXTENDS Integers, Sequences, FiniteSets, Bags, TLC

\* ---------------------------------------------------------------- bounds
NThreads == 2      \* threads sharing the pool
MaxCalls == 3      \* get() and prewarm() calls in one run of Spec / SeqSpec
MaxCount == 2      \* largest count passed to prewarm()
MaxLen == 1        \* largest logical size a caller gives an instance
MaxCap == 1        \* largest capacity a caller gives an instance
Cycles == 2        \* get/mutate/drop cycles of each worker in FairSpec

Threads == 1..NThreads

VARIABLES
    vacant,     \* Pool.vacant: the idle sequence (identities of instances)
    lock,       \* the thread holding the MutexGuard of vacant, or Free
    poisoned,   \* the Mutex's poison flag
    made,       \* number of instances constructed so far by T::default()
    len,        \* len[i]: logical size of instance i (i in 1..made)
    cap,        \* cap[i]: capacity of instance i
    destroyed,  \* instances that were dropped for good
    held,       \* held[t]: bag of the items of thread t's live Pooled handles
    pc,         \* pc[t]: where thread t is
    cur,        \* cur[t]: the local `item` of the drop() in progress
    cnt,        \* cnt[t]: iterations left of prewarm's loop
    panicked,   \* panicked[t]: thread t is unwinding after a panic
    active,     \* the threads that use the pool
    calls,      \* get() and prewarm() calls started (Spec, SeqSpec)
    cycles,     \* cycles[t]: get() calls of worker t that returned (FairSpec)
    log,        \* sequential runs only: one entry per completed operation
    peak,       \* FineSpec only: the largest numbers so far of handles in
                \* existence (peak.live) and of checkouts under way (peak.out)
    other       \* PoolsSpec only: a second Pool, with its own vacant and
                \* mutex (other.vacant, other.lock), the items of the live
                \* handles whose parent it is (other.held[t]) and, as a
                \* record of the run, the instances it constructed
                \* (other.mine)

vars == <<vacant, lock, poisoned, made, len, cap, destroyed, held, pc, cur,
          cnt, panicked, active, calls, cycles, log, peak, other>>

\* ------------------------------------------------------- pure definitions
Free == 0
None == 0
DefaultLen == 0
DefaultCap == 0

\* Option<usize>
SomeOf(n) == [some |-> TRUE, val |-> n]
NoneOpt == [some |-> FALSE, val |-> 0]

\* Clearable::clear on the std containers: size 0, capacity kept.
\* (mutants: a clear that does nothing; a clear that gives the storage back)
ClearLenNoop(l) == l
ClearLen(l) == 0
ClearCapShrink(c) == 0
ClearCap(c) == c

\* Mutex::lock once the mutex is acquired: Err(PoisonError) iff poisoned.
\* (mutant: the poison is ignored, as with PoisonError::into_inner)
InnerMutIgnorePoison(p) == "ok"
InnerMut(p) == IF p THEN "err" ELSE "ok"

\* inner_mut() on the storage of the single-owner pools, RefCell<Vec<T>>,
\* b being the holder of the RefMut that is out, or Free: granted when
\* nothing is borrowed, refused at once otherwise
TryBorrowMut(b) == IF b = Free THEN "ok" ELSE "err"

\* Vec::pop: the last element (None when empty) and what is left.
\* (mutant: the last element is read but left in place)
\* (mutant: the element handed out is the oldest one)
PopFirst(v) == IF Len(v) = 0 THEN None ELSE v[1]
Pop(v) == IF Len(v) = 0 THEN None ELSE v[Len(v)]
PopRestPeek(v) == v
PopRest(v) == IF Len(v) = 0 THEN v ELSE SubSeq(v, 1, Len(v) - 1)

\* Option::unwrap_or_default on what came out of the pool, `fresh` being
\* the instance T::default() constructs (mutant: None is passed on)
UnwrapOrNone(popped, fresh) == popped
UnwrapOrDefault(popped, fresh) == IF popped = None THEN fresh ELSE popped

\* self.item.take() on the handles b of a thread: the handle of item i has
\* its slot emptied and is gone with the end of drop()
\* (mutant: the item is copied out and the slot stays full)
TakeKeepsSlot(b, i) == b
Take(b, i) == b (-) SetToBag({i})

\* Pooled { .., parent: self }: the pool a handle made by get() on pool p
\* refers to, pools being numbered 1 and 2
\* (mutant: every handle refers to the first pool)
ParentFirst(p) == 1
Parent(p) == p

\* Vec::push (mutant: the element is not stored)
PushLost(v, i) == v
Push(v, i) == Append(v, i)

\* for _ in 0..count (mutant: 0..=count)
LoopCountInclusive(n) == n + 1
LoopCount(n) == n

\* dropping the MutexGuard (mutant: the guard is leaked, the mutex stays locked)
ReleaseLeak(t) == t
Release(t) == Free

\* the guard `vacant` of prewarm lives across the iterations of its loop
\* (mutant: it is taken anew for every push and dropped after it)
KeepGuardPerPush(t) == Free
KeepGuard(t) == t

\* what Drop leaves in vacant when inner_mut() failed: nothing is pushed
\* (mutant: the item is pushed all the same)
DiscardOnErrPush(v, i) == Append(v, i)
DiscardOnErr(v, i) == v

\* pool_size(): .ok().map(|v| v.len())
PoolSize(v, p) == IF InnerMut(p) = "err" THEN NoneOpt ELSE SomeOf(Len(v))

RECURSIVE SumTo(_, _)
Range(s) == {s[k] : k \in DOMAIN s}
One(i) == SetToBag({i})
Count(b, i) == CopiesIn(i, b)
NHeld(t) == BagCardinality(held[t])

\* The log of a sequential run (empty and left empty in concurrent runs).
\* An entry describes a completed operation: the instance it handed out or
\* took back, whether access to vacant was granted, the number of live
\* handles after it, the instance's size and capacity (of a get: as handed
\* out; of a drop: as the caller left it), and in `seen` what a pool_size()
\* called after it returned (<<>> when not called).
Record(e) == IF log = <<>> THEN log ELSE Append(log, e)
Entry(op, i, n, ok, h, l, c) ==
    [op |-> op, item |-> i, n |-> n, ok |-> ok, held |-> h, len |-> l,
     cap |-> c, seen |-> <<>>]
Observe(r) ==
    IF log = <<>> THEN log ELSE [log EXCEPT ![Len(log)].seen = <<r>>]
\* In a logged run the caller calls pool_size() once after every operation
\* (a thread that is unwinding calls nothing).
Unseen == IF log = <<>> THEN TRUE ELSE log[Len(log)].seen = <<>>
Observed(t) == IF log = <<>> \/ panicked[t] THEN TRUE ELSE ~Unseen

\* ------------------------------------------------------------------ Init
InitCommon ==
    /\ vacant = <<>>
    /\ lock = Free
    /\ made = 0
    /\ len = <<>>
    /\ cap = <<>>
    /\ destroyed = {}
    /\ held = [t \in Threads |-> EmptyBag]
    /\ pc = [t \in Threads |-> "idle"]
    /\ cur = [t \in Threads |-> None]
    /\ cnt = [t \in Threads |-> 0]
    /\ panicked = [t \in Threads |-> FALSE]
    /\ calls = 0
    /\ cycles = [t \in Threads |-> 0]
    /\ peak = [live |-> 0, out |-> 0]
    /\ other = [vacant |-> <<>>, lock |-> Free,
                held |-> [t \in Threads |-> EmptyBag], mine |-> {}]

\* Pool::new() shared by all threads
Init ==
    /\ InitCommon
    /\ poisoned = FALSE
    /\ active = Threads
    /\ log = <<>>

\* Pool::new() used by one thread
InitSeq ==
    /\ InitCommon
    /\ poisoned = FALSE
    /\ active = {1}
    /\ log = <<Entry("new", None, 0, TRUE, 0, 0, 0)>>

\* The pool as worker threads find it (sync.rs tests): empty, and possibly
\* poisoned by a thread that panicked in prewarm() before pushing anything.
InitW ==
    /\ InitCommon
    /\ poisoned \in BOOLEAN
    /\ active = Threads
    /\ log = <<>>

\* ---------------------------------------------------------------- get()
\* .unwrap_or_default(); item.clear(); Pooled { item: Some(item), parent }
\* with `popped` the Option<T> that came out of the pool
Wrap(t, popped, ok) ==
    LET fresh == popped = None
        i == UnwrapOrDefault(popped, made + 1)
        l == ClearLen(IF fresh THEN DefaultLen ELSE len[i])
        c == ClearCap(IF fresh THEN DefaultCap ELSE cap[i])
    IN  /\ made' = IF fresh THEN made + 1 ELSE made
        /\ len' = IF fresh THEN Append(len, l) ELSE [len EXCEPT ![i] = l]
        /\ cap' = IF fresh THEN Append(cap, c) ELSE [cap EXCEPT ![i] = c]
        /\ held' = [held EXCEPT ![t] = @ (+) One(i)]
        /\ log' = Record(Entry("get", i, 0, ok, NHeld(t) + 1, l, c))

\* self.vacant.inner_mut().ok(): blocks until the mutex is free; on Err the
\* guard inside the error is dropped at once and get() goes on with None
GetLock(t) ==
    /\ t \in active
    /\ pc[t] = "idle"
    /\ ~panicked[t]
    /\ Observed(t)
    /\ lock = Free
    /\ IF InnerMut(poisoned) = "err"
       THEN /\ Wrap(t, None, FALSE)
            /\ UNCHANGED <<pc, lock>>
       ELSE /\ pc' = [pc EXCEPT ![t] = "get_pop"]
            /\ lock' = t
            /\ UNCHANGED <<made, len, cap, held, log>>
    /\ UNCHANGED <<vacant, poisoned, destroyed, cur, cnt, panicked, active>>

\* .and_then(|mut v| v.pop()): the guard is dropped when the closure returns
GetPop(t) ==
    /\ pc[t] = "get_pop"
    /\ lock = t
    /\ vacant' = PopRest(vacant)
    /\ lock' = Release(t)
    /\ Wrap(t, Pop(vacant), TRUE)
    /\ pc' = [pc EXCEPT ![t] = "idle"]
    /\ UNCHANGED <<poisoned, destroyed, cur, cnt, panicked, active>>

\* ------------------------------------------- use of a handle (DerefMut)
\* the caller gives instance i, which it holds, size l and capacity c
Mutate(t, i, l, c) ==
    /\ pc[t] = "idle"
    /\ ~panicked[t]
    /\ BagIn(i, held[t])
    /\ l <= c
    /\ <<l, c>> # <<len[i], cap[i]>>
    /\ len' = [len EXCEPT ![i] = l]
    /\ cap' = [cap EXCEPT ![i] = c]
    /\ UNCHANGED <<vacant, lock, poisoned, made, destroyed, held, pc, cur,
                   cnt, panicked, active, log>>

\* ------------------------------------------------------ Drop for Pooled
\* self.item.take(); item.clear();
\* if let Ok(mut vacant) = self.parent.vacant.inner_mut() ... else the item
\* is destroyed.  A panicked thread runs this for its handles as it unwinds.
DropLock(t, i) ==
    /\ pc[t] = "idle"
    /\ BagIn(i, held[t])
    /\ Observed(t)
    /\ lock = Free
    /\ held' = [held EXCEPT ![t] = Take(@, i)]
    /\ IF InnerMut(poisoned) = "err"
       THEN /\ vacant' = DiscardOnErr(vacant, i)
            /\ destroyed' = destroyed \cup ({i} \ Range(vacant'))
            /\ len' = [len EXCEPT ![i] = 0]
            /\ cap' = [cap EXCEPT ![i] = 0]
            /\ UNCHANGED <<cur, pc, lock>>
       ELSE /\ cur' = [cur EXCEPT ![t] = i]
            /\ len' = [len EXCEPT ![i] = ClearLen(@)]
            /\ cap' = [cap EXCEPT ![i] = ClearCap(@)]
            /\ pc' = [pc EXCEPT ![t] = "drop_push"]
            /\ lock' = t
            /\ UNCHANGED <<vacant, destroyed>>
    /\ log' = Record(Entry("drop", i, 0, InnerMut(poisoned) = "ok",
                           NHeld(t) - 1, len[i], cap[i]))
    /\ UNCHANGED <<poisoned, made, cnt, panicked, active>>

\* vacant.push(item); the guard is dropped at the end of the if-let
DropPush(t) ==
    /\ pc[t] = "drop_push"
    /\ lock = t
    /\ vacant' = Push(vacant, cur[t])
    /\ lock' = Release(t)
    /\ cur' = [cur EXCEPT ![t] = None]
    /\ pc' = [pc EXCEPT ![t] = "idle"]
    /\ UNCHANGED <<poisoned, made, len, cap, destroyed, held, cnt, panicked,
                   active, log>>

\* ------------------------------------------------------- prewarm(count)
\* let mut vacant = self.vacant.inner_mut()?;
PrewarmLock(t, n) ==
    /\ t \in active
    /\ pc[t] = "idle"
    /\ ~panicked[t]
    /\ Observed(t)
    /\ lock = Free
    /\ IF InnerMut(poisoned) = "err"
       THEN /\ log' = Record(Entry("prewarm", None, n, FALSE, NHeld(t), 0, 0))
            /\ UNCHANGED <<pc, lock, cnt>>
       ELSE /\ pc' = [pc EXCEPT ![t] = "pw_push"]
            /\ lock' = t
            /\ cnt' = [cnt EXCEPT ![t] = LoopCount(n)]
            /\ log' = Record(Entry("prewarm", None, n, TRUE, NHeld(t), 0, 0))
    /\ UNCHANGED <<vacant, poisoned, made, len, cap, destroyed, held, cur,
                   panicked, active>>

\* one iteration: vacant.push(T::default())
PrewarmPush(t) ==
    /\ pc[t] = "pw_push"
    /\ lock = t
    /\ cnt[t] > 0
    /\ made' = made + 1
    /\ len' = Append(len, DefaultLen)
    /\ cap' = Append(cap, DefaultCap)
    /\ vacant' = Push(vacant, made + 1)
    /\ cnt' = [cnt EXCEPT ![t] = @ - 1]
    /\ lock' = KeepGuard(t)
    /\ UNCHANGED <<poisoned, destroyed, held, pc, cur, panicked, active, log>>

\* one iteration in which T::default() panics: the guard is dropped while
\* the thread unwinds, which poisons the mutex
PrewarmPanic(t) ==
    /\ pc[t] = "pw_push"
    /\ lock = t
    /\ cnt[t] > 0
    /\ poisoned' = TRUE
    /\ lock' = Release(t)
    /\ panicked' = [panicked EXCEPT ![t] = TRUE]
    /\ cnt' = [cnt EXCEPT ![t] = 0]
    /\ pc' = [pc EXCEPT ![t] = "idle"]
    /\ log' = Record(Entry("panic", None, cnt[t], FALSE, NHeld(t), 0, 0))
    /\ UNCHANGED <<vacant, made, len, cap, destroyed, held, cur, active>>

\* Ok(()): the guard is dropped on return
PrewarmDone(t) ==
    /\ pc[t] = "pw_push"
    /\ lock = t
    /\ cnt[t] = 0
    /\ lock' = Release(t)
    /\ pc' = [pc EXCEPT ![t] = "idle"]
    /\ UNCHANGED <<vacant, poisoned, made, len, cap, destroyed, held, cur,
                   cnt, panicked, active, log>>

\* ---------------------------------------------------------- pool_size()
\* self.vacant.inner().ok()
SizeLock(t) ==
    /\ t \in active
    /\ pc[t] = "idle"
    /\ ~panicked[t]
    /\ Unseen
    /\ lock = Free
    /\ IF InnerMut(poisoned) = "err"
       THEN /\ log' = Observe(PoolSize(vacant, poisoned))
            /\ UNCHANGED <<pc, lock>>
       ELSE /\ pc' = [pc EXCEPT ![t] = "ps_read"]
            /\ lock' = t
            /\ log' = log
    /\ UNCHANGED <<vacant, poisoned, made, len, cap, destroyed, held, cur,
                   cnt, panicked, active>>

\* .map(|v| v.len()); the guard is dropped on return
SizeRead(t) ==
    /\ pc[t] = "ps_read"
    /\ lock = t
    /\ log' = Observe(PoolSize(vacant, poisoned))
    /\ lock' = Release(t)
    /\ pc' = [pc EXCEPT ![t] = "idle"]
    /\ UNCHANGED <<vacant, poisoned, made, len, cap, destroyed, held, cur,
                   cnt, panicked, active>>

\* ------------------------------------------------------- specifications
\* Callers that use the pool in any way, up to MaxCalls get()/prewarm() calls.
Call ==
    calls < MaxCalls /\ calls' = calls + 1 /\ UNCHANGED <<cycles, peak, other>>
Same == UNCHANGED <<calls, cycles, peak, other>>

Next ==
    \E t \in Threads :
        \/ GetLock(t) /\ Call
        \/ GetPop(t) /\ Same
        \/ \E i \in BagToSet(held[t]), l \in 0..MaxLen, c \in 0..MaxCap :
               Mutate(t, i, l, c) /\ Same
        \/ \E i \in BagToSet(held[t]) : DropLock(t, i) /\ Same
        \/ DropPush(t) /\ Same
        \/ \E n \in 0..MaxCount : PrewarmLock(t, n) /\ Call
        \/ PrewarmPush(t) /\ Same
        \/ PrewarmPanic(t) /\ Same
        \/ PrewarmDone(t) /\ Same
        \/ SizeLock(t) /\ Same
        \/ SizeRead(t) /\ Same

\* any number of threads sharing one pool
Spec == Init /\ [][Next]_vars

\* one thread using one pool
SeqSpec == InitSeq /\ [][Next]_vars

\* A pool that another thread left poisoned: it called prewarm(), pushed m
\* instances and panicked in the next T::default().  Thread 1 finds it so.
InitPoisoned(m) ==
    /\ vacant = [k \in 1..m |-> k]
    /\ lock = Free
    /\ poisoned = TRUE
    /\ made = m
    /\ len = [k \in 1..m |-> DefaultLen]
    /\ cap = [k \in 1..m |-> DefaultCap]
    /\ destroyed = {}
    /\ held = [t \in Threads |-> EmptyBag]
    /\ pc = [t \in Threads |-> "idle"]
    /\ cur = [t \in Threads |-> None]
    /\ cnt = [t \in Threads |-> 0]
    /\ panicked = [t \in Threads |-> t = NThreads]
    /\ active = {1}
    /\ calls = 0
    /\ cycles = [t \in Threads |-> 0]
    /\ peak = [live |-> 0, out |-> 0]
    /\ other = [vacant |-> <<>>, lock |-> Free,
                held |-> [t \in Threads |-> EmptyBag], mine |-> {}]
    /\ log = <<Entry("poisoned", None, m, FALSE, 0, 0, 0)>>

\* the pool's operations alone: callers that leave the instances they are
\* handed as they are
NextOps ==
    \E t \in Threads :
        \/ GetLock(t) /\ Call
        \/ GetPop(t) /\ Same
        \/ \E i \in BagToSet(held[t]) : DropLock(t, i) /\ Same
        \/ DropPush(t) /\ Same
        \/ \E n \in 0..MaxCount : PrewarmLock(t, n) /\ Call
        \/ PrewarmPush(t) /\ Same
        \/ PrewarmPanic(t) /\ Same
        \/ PrewarmDone(t) /\ Same
        \/ SizeLock(t) /\ Same
        \/ SizeRead(t) /\ Same

\* any number of threads calling the operations of one pool.  No operation
\* reads the size or the capacity of an instance, so what the pool can do
\* to its instances is the same as under Spec.
OpsSpec == Init /\ [][NextOps]_vars

\* one thread calling the operations of one pool, new or left poisoned by
\* another thread
SeqSpecP ==
    (InitSeq \/ \E m \in 0..MaxCount : InitPoisoned(m)) /\ [][NextOps]_vars

\* Worker threads as in test_multithread_usage / test_stress_test: each runs
\* Cycles times { let mut vec = pool.get(); use vec; drop(vec) }.
SumTo(f, n) == IF n = 0 THEN 0 ELSE f[n] + SumTo(f, n - 1)
WDone(t) == cycles[t] = Cycles /\ pc[t] = "idle" /\ held[t] = EmptyBag

WGet(t) ==
    /\ cycles[t] < Cycles
    /\ held[t] = EmptyBag
    /\ GetLock(t)
    /\ cycles' = [cycles EXCEPT ![t] = IF pc'[t] = "idle" THEN @ + 1 ELSE @]
    /\ UNCHANGED <<calls, peak, other>>

WPop(t) ==
    /\ GetPop(t)
    /\ cycles' = [cycles EXCEPT ![t] = @ + 1]
    /\ UNCHANGED <<calls, peak, other>>

WUse(t) ==
    \E i \in BagToSet(held[t]), l \in 0..MaxLen, c \in 0..MaxCap :
        Mutate(t, i, l, c) /\ Same

WDrop(t) == \E i \in BagToSet(held[t]) : DropLock(t, i) /\ Same

WPush(t) == DropPush(t) /\ Same

\* what the thread's program makes it do next (its use of the instance aside)
WStep(t) == WGet(t) \/ WPop(t) \/ WDrop(t) \/ WPush(t)

NextW == \E t \in Threads : WStep(t) \/ WUse(t)

\* every thread that can take its next step is eventually scheduled
FairSpec == InitW /\ [][NextW]_vars /\ \A t \in Threads : WF_vars(WStep(t))

\* ------------------------------------------- get() at a finer grain
\* The same get(), with what follows the pop kept as a step of its own: the
\* thread has let the guard go and has yet to construct or clear the
\* instance and to build the handle.  Where a handle is at a given moment
\* matters to a count of the handles in existence, which is why FineSpec
\* takes get() apart like this.
GetPopUnlock(t) ==
    /\ pc[t] = "get_pop"
    /\ lock = t
    /\ vacant' = PopRest(vacant)
    /\ lock' = Release(t)
    /\ cur' = [cur EXCEPT ![t] = Pop(vacant)]
    /\ pc' = [pc EXCEPT ![t] = "get_wrap"]
    /\ UNCHANGED <<poisoned, made, len, cap, destroyed, held, cnt, panicked,
                   active, log>>

\* .unwrap_or_default(); item.clear(); Pooled { item: Some(item), parent }
GetWrap(t) ==
    /\ pc[t] = "get_wrap"
    /\ Wrap(t, cur[t], TRUE)
    /\ cur' = [cur EXCEPT ![t] = None]
    /\ pc' = [pc EXCEPT ![t] = "idle"]
    /\ UNCHANGED <<vacant, lock, poisoned, destroyed, cnt, panicked, active>>

\* handles in existence: those their callers hold and those whose drop()
\* has not returned yet
Live ==
    SumTo([t \in Threads |-> NHeld(t)], NThreads)
    + Cardinality({t \in Threads : pc[t] = "drop_push"})
\* checkouts under way: the handles in existence and the get() calls that
\* are at or past their access to the idle sequence
Out == Live + Cardinality({t \in Threads : pc[t] \in {"get_pop", "get_wrap"}})
Track ==
    peak' = [live |-> IF Live' > peak.live THEN Live' ELSE peak.live,
             out |-> IF Out' > peak.out THEN Out' ELSE peak.out]

\* Worker threads as above, each with one handle at a time, on a pool that
\* is new and never prewarmed.
FGet(t) ==
    /\ cycles[t] < Cycles
    /\ held[t] = EmptyBag
    /\ GetLock(t)
    /\ UNCHANGED <<calls, cycles, other>>
    /\ Track

FPop(t) == GetPopUnlock(t) /\ UNCHANGED <<calls, cycles, other>> /\ Track

FWrap(t) ==
    /\ GetWrap(t)
    /\ cycles' = [cycles EXCEPT ![t] = @ + 1]
    /\ UNCHANGED <<calls, other>>
    /\ Track

FUse(t) ==
    \E i \in BagToSet(held[t]), l \in 0..MaxLen, c \in 0..MaxCap :
        Mutate(t, i, l, c) /\ Same

FDrop(t) ==
    \E i \in BagToSet(held[t]) :
        DropLock(t, i) /\ UNCHANGED <<calls, cycles, other>> /\ Track

FPush(t) == DropPush(t) /\ UNCHANGED <<calls, cycles, other>> /\ Track

NextFine ==
    \E t \in Threads :
        FGet(t) \/ FPop(t) \/ FWrap(t) \/ FUse(t) \/ FDrop(t) \/ FPush(t)

FineSpec == Init /\ [][NextFine]_vars

\* ------------------------------------------------------ a second pool
\* The same operations called on another Pool by the same threads.  The
\* other pool has its own vacant and its own mutex; instances of both
\* pools are numbered in one sequence.  Its mutex is never poisoned: no
\* T::default() panics in its prewarm.
\* the handles of thread t that refer to pool p, with a new handle on
\* instance i made by a get() on the other pool
Handed(p, b, i) == IF Parent(2) = p THEN b (+) One(i) ELSE b

OtherGetLock(t) ==
    /\ t \in active
    /\ pc[t] = "idle"
    /\ ~panicked[t]
    /\ other.lock = Free
    /\ other' = [other EXCEPT !.lock = t]
    /\ pc' = [pc EXCEPT ![t] = "get_pop2"]
    /\ UNCHANGED <<vacant, lock, poisoned, made, len, cap, destroyed, held,
                   cur, cnt, panicked, active, log>>

OtherGetPop(t) ==
    /\ pc[t] = "get_pop2"
    /\ other.lock = t
    /\ LET popped == Pop(other.vacant)
           fresh == popped = None
           i == UnwrapOrDefault(popped, made + 1)
           l == ClearLen(IF fresh THEN DefaultLen ELSE len[i])
           c == ClearCap(IF fresh THEN DefaultCap ELSE cap[i])
       IN  /\ made' = IF fresh THEN made + 1 ELSE made
           /\ len' = IF fresh THEN Append(len, l) ELSE [len EXCEPT ![i] = l]
           /\ cap' = IF fresh THEN Append(cap, c) ELSE [cap EXCEPT ![i] = c]
           /\ other' = [other EXCEPT
                            !.vacant = PopRest(@),
                            !.lock = Release(t),
                            !.held[t] = Handed(2, @, i),
                            !.mine = IF fresh THEN @ \cup {i} ELSE @]
           /\ held' = [held EXCEPT ![t] = Handed(1, @, i)]
    /\ pc' = [pc EXCEPT ![t] = "idle"]
    /\ UNCHANGED <<vacant, lock, poisoned, destroyed, cur, cnt, panicked,
                   active, log>>

OtherDropLock(t, i) ==
    /\ pc[t] = "idle"
    /\ BagIn(i, other.held[t])
    /\ other.lock = Free
    /\ other' = [other EXCEPT !.held[t] = Take(@, i), !.lock = t]
    /\ cur' = [cur EXCEPT ![t] = i]
    /\ len' = [len EXCEPT ![i] = ClearLen(@)]
    /\ cap' = [cap EXCEPT ![i] = ClearCap(@)]
    /\ pc' = [pc EXCEPT ![t] = "drop_push2"]
    /\ UNCHANGED <<vacant, lock, poisoned, made, destroyed, held, cnt,
                   panicked, active, log>>

OtherDropPush(t) ==
    /\ pc[t] = "drop_push2"
    /\ other.lock = t
    /\ other' = [other EXCEPT !.vacant = Push(@, cur[t]), !.lock = Release(t)]
    /\ cur' = [cur EXCEPT ![t] = None]
    /\ pc' = [pc EXCEPT ![t] = "idle"]
    /\ UNCHANGED <<vacant, lock, poisoned, made, len, cap, destroyed, held,
                   cnt, panicked, active, log>>

OtherPrewarmLock(t, n) ==
    /\ t \in active
    /\ pc[t] = "idle"
    /\ ~panicked[t]
    /\ other.lock = Free
    /\ other' = [other EXCEPT !.lock = t]
    /\ cnt' = [cnt EXCEPT ![t] = LoopCount(n)]
    /\ pc' = [pc EXCEPT ![t] = "pw_push2"]
    /\ UNCHANGED <<vacant, lock, poisoned, made, len, cap, destroyed, held,
                   cur, panicked, active, log>>

OtherPrewarmPush(t) ==
    /\ pc[t] = "pw_push2"
    /\ other.lock = t
    /\ cnt[t] > 0
    /\ made' = made + 1
    /\ len' = Append(len, DefaultLen)
    /\ cap' = Append(cap, DefaultCap)
    /\ other' = [other EXCEPT !.vacant = Push(@, made + 1),
                              !.lock = KeepGuard(t),
                              !.mine = @ \cup {made + 1}]
    /\ cnt' = [cnt EXCEPT ![t] = @ - 1]
    /\ UNCHANGED <<vacant, lock, poisoned, destroyed, held, pc, cur,
                   panicked, active, log>>

OtherPrewarmDone(t) ==
    /\ pc[t] = "pw_push2"
    /\ other.lock = t
    /\ cnt[t] = 0
    /\ other' = [other EXCEPT !.lock = Release(t)]
    /\ pc' = [pc EXCEPT ![t] = "idle"]
    /\ UNCHANGED <<vacant, lock, poisoned, made, len, cap, destroyed, held,
                   cur, cnt, panicked, active, log>>

Budget == calls < MaxCalls /\ calls' = calls + 1 /\ UNCHANGED <<cycles, peak>>
Within == UNCHANGED <<calls, cycles, peak>>

NextOther ==
    \E t \in Threads :
        \/ OtherGetLock(t) /\ Budget
        \/ OtherGetPop(t) /\ Within
        \/ \E i \in BagToSet(other.held[t]) : OtherDropLock(t, i) /\ Within
        \/ OtherDropPush(t) /\ Within
        \/ \E n \in 0..MaxCount : OtherPrewarmLock(t, n) /\ Budget
        \/ OtherPrewarmPush(t) /\ Within
        \/ OtherPrewarmDone(t) /\ Within

\* any number of threads calling the operations of two pools
PoolsSpec == Init /\ [][NextOps \/ NextOther]_vars

\* ------------------------------------------- the single-owner pools
\* RefPool<T> = Pool<T, RefCell<Vec<T>>>, used by one thread.  `lock` is
\* the borrow state of the RefCell: the thread whose operation holds the
\* RefMut, or Free; nothing poisons a RefCell.  An operation called from
\* the top level finds nothing borrowed and runs as on the shared pool.
\* The code of T that runs while a RefMut is out is T::default() in the
\* loop of prewarm: it may call get() or prewarm() on the same pool and
\* drop handles of it, and these calls are the re-entrant ones.
InitRef ==
    /\ InitCommon
    /\ poisoned = FALSE
    /\ active = {1}
    /\ log = <<>>

\* T::default() is running in an iteration of prewarm's loop
InDefault(t) == t \in active /\ pc[t] = "pw_push" /\ cnt[t] > 0

\* get() called from T::default(): inner_mut().ok() is None when the
\* borrow is refused; had it been granted, the pop would have gone ahead
ReGet(t) ==
    /\ InDefault(t)
    /\ IF TryBorrowMut(lock) = "err"
       THEN /\ Wrap(t, None, FALSE)
            /\ vacant' = vacant
       ELSE /\ Wrap(t, Pop(vacant), TRUE)
            /\ vacant' = PopRest(vacant)
    /\ UNCHANGED <<lock, poisoned, destroyed, pc, cur, cnt, panicked, active>>

\* a handle dropped in T::default(): take, clear, and the if-let on
\* inner_mut(), whose body is skipped when the borrow is refused
ReDrop(t, i) ==
    /\ InDefault(t)
    /\ BagIn(i, held[t])
    /\ held' = [held EXCEPT ![t] = Take(@, i)]
    /\ IF TryBorrowMut(lock) = "err"
       THEN /\ vacant' = DiscardOnErr(vacant, i)
            /\ destroyed' = destroyed \cup ({i} \ Range(vacant'))
            /\ len' = [len EXCEPT ![i] = 0]
            /\ cap' = [cap EXCEPT ![i] = 0]
       ELSE /\ vacant' = Push(vacant, i)
            /\ destroyed' = destroyed
            /\ len' = [len EXCEPT ![i] = ClearLen(@)]
            /\ cap' = [cap EXCEPT ![i] = ClearCap(@)]
    /\ UNCHANGED <<lock, poisoned, made, pc, cur, cnt, panicked, active, log>>

\* prewarm(n) called from T::default(): inner_mut()? returns the error
\* when the borrow is refused; had it been granted, the pushes would have
\* gone ahead
RePrewarm(t, n) ==
    /\ InDefault(t)
    /\ IF TryBorrowMut(lock) = "err"
       THEN UNCHANGED <<vacant, made, len, cap>>
       ELSE /\ vacant' = vacant \o [k \in 1..LoopCount(n) |-> made + k]
            /\ made' = made + LoopCount(n)
            /\ len' = len \o [k \in 1..LoopCount(n) |-> DefaultLen]
            /\ cap' = cap \o [k \in 1..LoopCount(n) |-> DefaultCap]
    /\ UNCHANGED <<lock, poisoned, destroyed, held, pc, cur, cnt, panicked,
                   active, log>>

NextRef ==
    \E t \in Threads :
        \/ GetLock(t) /\ Call
        \/ GetPop(t) /\ Same
        \/ \E i \in BagToSet(held[t]), l \in 0..MaxLen, c \in 0..MaxCap :
               Mutate(t, i, l, c) /\ Same
        \/ \E i \in BagToSet(held[t]) : DropLock(t, i) /\ Same
        \/ DropPush(t) /\ Same
        \/ \E n \in 0..MaxCount : PrewarmLock(t, n) /\ Call
        \/ PrewarmPush(t) /\ Same
        \/ PrewarmDone(t) /\ Same
        \/ SizeLock(t) /\ Same
        \/ SizeRead(t) /\ Same
        \/ ReGet(t) /\ Call
        \/ \E i \in BagToSet(held[t]) : ReDrop(t, i) /\ Same
        \/ \E n \in 0..MaxCount : RePrewarm(t, n) /\ Call

\* one thread using one single-owner pool
RefSpec == InitRef /\ [][NextRef]_vars

\* ================================================================ claims
Occurrences(i) ==
    Cardinality({k \in DOMAIN vacant : vacant[k] = i})
    + SumTo([t \in Threads |-> Count(held[t], i)], NThreads)
    + Cardinality({t \in Threads : cur[t] = i})

\* C1: under any interleaving of get(), prewarm(), pool_size() and handle
\* drops by the threads sharing one pool, every instance has at most one
\* owner: one slot of the idle sequence, or one live handle (or the drop that
\* is returning it), never two of these.
C1_SingleOwner == \A i \in 1..made : Occurrences(i) <= 1

\* two threads hold handles while a returned instance is idle
C1_Witness ==
    /\ Len(vacant) >= 1
    /\ \A t \in Threads : NHeld(t) >= 1
    /\ \E k \in DOMAIN vacant : cap[vacant[k]] > 0

\* C5: every instance in the idle sequence is cleared (logical size 0),
\* whatever its caller did to it while it was checked out.
C5_IdleCleared == \A k \in DOMAIN vacant : len[vacant[k]] = 0

\* an instance a caller has grown is idle again
C5_Witness == \E k \in DOMAIN vacant : cap[vacant[k]] > 0

\* C6: N worker threads each run K get/mutate/drop cycles on the shared
\* pool; under fair scheduling no thread blocks forever: every get()
\* returns a handle, every thread finishes, and N * K get() calls succeeded.
C6_AllCyclesFinish ==
    <>[](/\ \A t \in Threads : WDone(t)
         /\ SumTo(cycles, NThreads) = NThreads * Cycles)

\* all workers are done after a run in which they held handles at once
C6_Witness ==
    /\ \A t \in Threads : WDone(t)
    /\ ~poisoned
    /\ Len(vacant) = NThreads

\* C9: a get() that is refused access to the idle sequence (the mutex is
\* poisoned) returns at once a handle on a newly constructed, cleared
\* instance, keeps no guard and leaves the idle sequence as it is.
C9_GetFallsBack ==
    [][\A t \in Threads :
          (/\ poisoned
           /\ pc[t] = "idle"
           /\ \/ pc'[t] = "get_pop"
              \/ BagCardinality(held'[t]) > BagCardinality(held[t]))
          => /\ pc'[t] = "idle"
             /\ lock' = lock
             /\ vacant' = vacant
             /\ made' = made + 1
             /\ held'[t] = held[t] (+) One(made + 1)
             /\ len'[made + 1] = 0
             /\ cap'[made + 1] = DefaultCap]_vars

\* prewarm pushed instance 1 and panicked; the two get() calls that followed
\* constructed instances 2 and 3 and left instance 1 idle
C9_Witness ==
    /\ poisoned
    /\ vacant = <<1>>
    /\ made = 3
    /\ \E t \in Threads : ~panicked[t] /\ BagIn(3, held[t])

\* C10: a handle dropped while access to the idle sequence is refused is
\* discarded in that one step: the idle sequence is unchanged, no guard is
\* kept (a poisoned mutex is never left locked, so such a drop cannot block),
\* and the instance is never again idle or in a handle.
C10_DropDiscards ==
    [][/\ \A t \in Threads :
            (/\ poisoned
             /\ pc[t] = "idle"
             /\ BagCardinality(held'[t]) < BagCardinality(held[t]))
            => /\ pc'[t] = "idle"
               /\ lock' = lock
               /\ vacant' = vacant
               /\ made' = made
               /\ \E i \in BagToSet(held[t]) :
                      held'[t] = held[t] (-) One(i) /\ i \in destroyed'
       /\ poisoned' => lock' = Free
       /\ destroyed \subseteq destroyed'
       /\ \A i \in destroyed' : Occurrences(i)' = 0]_vars

\* prewarm pushed instance 1 and panicked; instance 2, handed out after
\* that, was dropped and discarded; instance 1 is idle as before and a
\* handle on instance 3 is live
C10_Witness ==
    /\ poisoned
    /\ vacant = <<1>>
    /\ destroyed = {2}
    /\ \E t \in Threads : BagIn(3, held[t])

\* ------------------------------------------------ claims on the log (SeqSpec)
\* pool_size() was called after operation i and returned Some(Size(i))
Seen(i) == i \in DOMAIN log /\ log[i].seen # <<>> /\ log[i].seen[1].some
Size(i) == log[i].seen[1].val
\* operations a..b are get() calls whose access to vacant was granted
Gets(a, b) ==
    /\ b <= Len(log)
    /\ \A x \in a..b : log[x].op = "get" /\ log[x].ok
\* operations a..b are the drops, all returning, of the handles that
\* operations g..h handed out
DropsOf(a, b, g, h) ==
    /\ b <= Len(log)
    /\ \A x \in a..b : log[x].op = "drop" /\ log[x].ok
    /\ {log[x].item : x \in a..b} = {log[x].item : x \in g..h}
Max(a, b) == IF a >= b THEN a ELSE b

\* C2 as stated: on one thread pool_size() + (number of live handles) is
\* the same before and after every get() and every handle drop.
C2_Original ==
    \A i \in 2..Len(log) :
        (log[i].op \in {"get", "drop"} /\ Seen(i - 1) /\ Seen(i))
        => Size(i) + log[i].held = Size(i - 1) + log[i - 1].held

\* C2 amended: on one thread pool_size() + (number of live handles) is the
\* same before and after every handle drop and every get() that finds an
\* idle instance; a get() on an empty pool raises it by one.
C2_SumAmended ==
    \A i \in 2..Len(log) :
        (log[i].op \in {"get", "drop"} /\ Seen(i - 1) /\ Seen(i))
        => Size(i) + log[i].held =
               Size(i - 1) + log[i - 1].held
               + (IF log[i].op = "get" /\ Size(i - 1) = 0 THEN 1 ELSE 0)

\* a get() that took an idle instance, then the drop of a handle, with
\* pool_size() called before, between and after
C2_Witness ==
    \E i \in 3..Len(log) :
        /\ log[i].op = "drop" /\ log[i - 1].op = "get"
        /\ Seen(i - 2) /\ Seen(i - 1) /\ Seen(i)
        /\ Size(i - 2) >= 1

\* C3 as stated: after k consecutive get() calls with no drop in between,
\* pool_size() is exactly k lower than before them.
C3_Original ==
    \A i \in DOMAIN log : Seen(i) => \A j \in (i + 1)..Len(log) :
        (Gets(i + 1, j) /\ Seen(j))
        => Size(j) = Size(i) - (j - i)

\* C3 amended: after k consecutive get() calls with no drop in between,
\* pool_size() is lower by k, or 0 when fewer than k instances were idle
\* (a get() on an empty pool constructs an instance and leaves the size 0).
C3_DecreaseToZero ==
    \A i \in DOMAIN log : Seen(i) => \A j \in (i + 1)..Len(log) :
        (Gets(i + 1, j) /\ Seen(j))
        => Size(j) = Max(Size(i) - (j - i), 0)

\* two get() calls in a row on a pool that held one idle instance
C3_Witness ==
    \E i \in DOMAIN log :
        Seen(i) /\ Size(i) = 1 /\ Gets(i + 1, i + 2) /\ Seen(i + 2)

PrewarmOnEmpty(i) ==
    i >= 2 /\ log[i].op = "prewarm" /\ log[i].ok /\ Seen(i - 1) /\ Size(i - 1) = 0

\* C7: prewarm(n) on an empty pool makes pool_size() n; with m <= n
\* instances then checked out it is n - m; after those m handles are
\* dropped it is n again.
C7_Prewarm ==
    \A i \in DOMAIN log :
        PrewarmOnEmpty(i) =>
            /\ Seen(i) => Size(i) = log[i].n
            /\ \A m \in 1..log[i].n :
                   /\ (Gets(i + 1, i + m) /\ Seen(i + m))
                      => Size(i + m) = log[i].n - m
                   /\ (Gets(i + 1, i + m)
                       /\ DropsOf(i + m + 1, i + 2 * m, i + 1, i + m)
                       /\ Seen(i + 2 * m))
                      => Size(i + 2 * m) = log[i].n

\* prewarm(MaxCount), MaxCount get() calls, their handles dropped, with
\* pool_size() called after each phase
C7_Witness ==
    \E i \in DOMAIN log :
        /\ PrewarmOnEmpty(i) /\ log[i].n = MaxCount /\ Seen(i)
        /\ Gets(i + 1, i + MaxCount) /\ Seen(i + MaxCount)
        /\ DropsOf(i + MaxCount + 1, i + 2 * MaxCount, i + 1, i + MaxCount)
        /\ Seen(i + 2 * MaxCount)

\* C8: when pool_size() is 0 and k handles are then obtained and kept
\* alive, pool_size() is 0 while they all live and k once they are dropped.
C8_KeptAlive ==
    \A i \in DOMAIN log : (Seen(i) /\ Size(i) = 0) =>
        \A k \in 1..(Len(log) - i) : Gets(i + 1, i + k) =>
            /\ Seen(i + k) => Size(i + k) = 0
            /\ (DropsOf(i + k + 1, i + 2 * k, i + 1, i + k) /\ Seen(i + 2 * k))
               => Size(i + 2 * k) = k

\* a new pool, MaxCalls handles alive at once, then all dropped
C8_Witness ==
    /\ Seen(1) /\ Gets(2, 1 + MaxCalls) /\ Seen(1 + MaxCalls)
    /\ DropsOf(2 + MaxCalls, 1 + 2 * MaxCalls, 2, 1 + MaxCalls)
    /\ Seen(1 + 2 * MaxCalls)

\* ------------------------------------- claims on the log (SeqSpecP)
\* C11: prewarm(count) is the operation that reports refused access: on a
\* poisoned pool it returns Err and nothing is pushed (the idle sequence
\* stays as the poisoning left it; get() still hands out an instance); on a
\* pool that grants access it returns Ok and pool_size() has grown by
\* exactly count.
C11_PrewarmResult ==
    /\ \A i \in 2..Len(log) :
           /\ log[i].op = "prewarm" =>
                  /\ log[i].ok <=> log[1].op = "new"
                  /\ (log[i].ok /\ Seen(i - 1) /\ Seen(i))
                     => Size(i) = Size(i - 1) + log[i].n
           /\ log[i].op = "get" => log[i].item # None
    /\ log[1].op = "poisoned" => vacant = [k \in 1..log[1].n |-> k]

\* prewarm(n), n >= 1, returned Err on a poisoned pool that holds an idle
\* instance, and the pool_size() after it returned None
C11_Witness ==
    /\ log[1].op = "poisoned" /\ log[1].n >= 1
    /\ \E i \in 2..Len(log) :
           /\ log[i].op = "prewarm" /\ log[i].n >= 1 /\ ~log[i].ok
           /\ log[i].seen = <<NoneOpt>>

\* --------------------------------------------------- claims on Spec
\* the places of an operation at which the thread holds the guard of vacant
Inside == {"get_pop", "drop_push", "pw_push", "ps_read"}

\* C12: the guard of the idle sequence never outlives the operation that
\* took it: a thread holds it only inside get(), prewarm(), pool_size() or a
\* handle drop, never once the operation has returned (or ended in a panic),
\* so a thread that keeps a handle and uses its instance holds no guard and
\* when every operation has returned the mutex is free.
C12_NoGuardOutlives ==
    /\ \A t \in Threads : lock = t <=> pc[t] \in Inside
    /\ lock \in Threads \cup {Free}

\* a thread uses the instance of its live handle (it has filled it) while
\* another thread is inside get() with the guard
C12_Witness ==
    \E t \in Threads, u \in Threads :
        /\ pc[t] = "idle" /\ \E i \in BagToSet(held[t]) : len[i] > 0
        /\ u # t /\ pc[u] = "get_pop" /\ lock = u

\* C13: the accesses to the idle sequence exclude each other: while a thread
\* is at the pop of get(), the push of a drop, the read of pool_size() or
\* anywhere in the loop of prewarm(), it holds the guard, no other thread is
\* at any of these, and the mutex is not poisoned.  So nobody sees part of
\* a prewarm's instances: not while the loop runs, and not after a panic
\* has cut it short, since a poisoned mutex admits nobody.
C13_Atomic ==
    \A u \in Threads :
        pc[u] \in Inside =>
            /\ ~poisoned
            /\ lock = u
            /\ \A t \in Threads \ {u} : pc[t] \notin Inside

\* a prewarm has pushed one instance and has more to push, while another
\* thread, which holds a handle, is kept out
C13_Witness ==
    \E t \in Threads, u \in Threads :
        /\ pc[t] = "pw_push" /\ cnt[t] >= 1
        /\ Len(vacant) >= 1 /\ vacant[Len(vacant)] = made
        /\ u # t /\ pc[u] = "idle" /\ NHeld(u) >= 1

\* ------------------------------------------------ claims on FineSpec
\* every thread has finished at least one cycle and dropped its handle
Quiet ==
    \A t \in Threads : cycles[t] >= 1 /\ pc[t] = "idle" /\ held[t] = EmptyBag

\* C14 as stated: once every thread has finished cycles and dropped its
\* handle the idle count is between 1 and N, and at no time is it larger
\* than the largest number of handles that were in existence at once.
C14_Original ==
    /\ Quiet => (1 <= Len(vacant) /\ Len(vacant) <= NThreads)
    /\ Len(vacant) <= peak.live

\* C14 amended: once every thread has finished cycles and dropped its
\* handle the idle count is between 1 and N, and at no time is it larger
\* than the largest number of checkouts that were under way at once, a
\* checkout being under way from the access of get() to the idle sequence
\* until the drop of its handle has returned.
C14_IdleBounded ==
    /\ Quiet => (1 <= Len(vacant) /\ Len(vacant) <= NThreads)
    /\ Len(vacant) <= peak.out

\* all threads are through, two instances are idle and no two handles ever
\* existed at once: one get() was between its pop and its handle all the
\* while another thread held and dropped its handle
C14_Witness ==
    /\ Quiet
    /\ Len(vacant) = 2
    /\ peak.live = 1
    /\ peak.out = 2

\* -------------------------------------------------- claims on OpsSpec
\* C15: a get() that is granted access and finds the idle sequence
\* non-empty constructs nothing: it hands out the last element and leaves
\* the rest as it is, in order; a drop or a prewarm adds at the end only, so
\* the last element is the one added most recently; and a get() constructs
\* an instance only when the idle sequence is empty or access is refused.
C15_GetPopsLast ==
    [][\A t \in Threads :
          /\ (pc[t] = "get_pop" /\ pc'[t] = "idle") =>
                 IF vacant # <<>>
                 THEN /\ made' = made
                      /\ held'[t] = held[t] (+) One(vacant[Len(vacant)])
                      /\ vacant' = SubSeq(vacant, 1, Len(vacant) - 1)
                 ELSE /\ made' = made + 1
                      /\ held'[t] = held[t] (+) One(made + 1)
                      /\ vacant' = vacant
          /\ (pc[t] \in {"drop_push", "pw_push"} /\ vacant' # vacant) =>
                 /\ Len(vacant') = Len(vacant) + 1
                 /\ SubSeq(vacant', 1, Len(vacant)) = vacant
          /\ (NHeld(t)' > NHeld(t) /\ made' > made) =>
                 (vacant = <<>> \/ poisoned)]_vars

\* prewarm(2) made instances 1 and 2 and the get() after it took instance
\* 2, the last, and left instance 1
C15_Witness ==
    /\ calls = 2 /\ made = 2 /\ vacant = <<1>>
    /\ \E t \in Threads : held[t] = One(2) /\ pc[t] = "idle"

\* ------------------------------------------- more claims on Spec
\* C16: the slot of a live handle always holds an instance (never None, so
\* Deref and DerefMut cannot panic), and a drop consumes it once: while the
\* drop is under way the instance is in its local `item` alone, in no handle
\* and not idle yet, and the idle sequence never holds an instance twice.
C16_SlotConsumedOnce ==
    /\ \A t \in Threads :
           /\ ~BagIn(None, held[t])
           /\ \A i \in BagToSet(held[t]) : i \in 1..made /\ i \notin destroyed
           /\ pc[t] = "drop_push" <=> cur[t] # None
           /\ cur[t] # None =>
                  /\ \A u \in Threads : ~BagIn(cur[t], held[u])
                  /\ cur[t] \notin Range(vacant)
    /\ \A j \in DOMAIN vacant, k \in DOMAIN vacant :
           vacant[j] = vacant[k] => j = k

\* an instance is checked out for the second time, its caller has filled
\* it, and the drop of another handle is about to push
C16_Witness ==
    \E t \in Threads, u \in Threads :
        /\ \E i \in BagToSet(held[t]) : cap[i] > 0 /\ len[i] = 0 /\ pc[t] = "idle"
        /\ u # t /\ pc[u] = "drop_push" /\ cur[u] # None

\* ------------------------------------------- more claims on OpsSpec
\* where the instances are
IdleSet == Range(vacant)
OutSet == UNION {BagToSet(held[t]) : t \in Threads}
              \cup ({cur[t] : t \in Threads} \ {None})

\* the instances ever constructed are the idle ones, the checked-out ones
\* (in a handle or in the drop that is returning them) and the destroyed ones
Conserved ==
    made = Len(vacant)
           + SumTo([t \in Threads |-> NHeld(t)], NThreads)
           + Cardinality({t \in Threads : cur[t] # None})
           + Cardinality(destroyed)

\* the moves of the existing instances in one step (a step that leaves the
\* idle sequence, the handles and the drops under way alone moves nothing)
Lifecycle ==
    IF <<vacant, held, cur, destroyed>>' = <<vacant, held, cur, destroyed>>
    THEN TRUE
    ELSE
    LET idle == IdleSet
        idleNow == IdleSet'
        out == OutSet
        outNow == OutSet'
    IN  /\ \A i \in idle \ idleNow :
               /\ i \in outNow /\ i \notin destroyed'
               /\ \E t \in Threads : pc[t] = "get_pop" /\ BagIn(i, held'[t])
        /\ \A i \in out \ outNow :
               \/ /\ i \in idleNow /\ i \notin destroyed' /\ ~poisoned
                  /\ \E t \in Threads : pc[t] = "drop_push" /\ cur[t] = i
               \/ /\ i \in destroyed' /\ i \notin idleNow /\ poisoned
                  /\ \E t \in Threads : BagIn(i, held[t])
        /\ destroyed \subseteq destroyed'
        /\ destroyed' \cap (idleNow \cup outNow) = {}
        /\ idleNow \cap outNow = {}

\* C17: an instance moves only from idle to checked out (by get()), from
\* checked out to idle (by a drop that is granted access) or from checked
\* out to destroyed (by a drop that is refused access); a destroyed instance
\* stays destroyed, an idle one is never destroyed, and the instances ever
\* constructed are at all times the idle, the checked-out and the destroyed
\* ones together.
C17_Lifecycle == []Conserved /\ [][Lifecycle]_vars

\* of the two instances that two get() calls constructed, one was returned
\* and is idle, and the other was destroyed by a drop after the third call,
\* a prewarm, had poisoned the pool
C17_Witness ==
    /\ poisoned
    /\ made = 2
    /\ calls = MaxCalls
    /\ Len(vacant) = 1
    /\ destroyed # {}

\* ------------------------------------------------ claims on PoolsSpec
\* the places at which a thread is inside an operation on the second pool
InsideOther == {"get_pop2", "drop_push2", "pw_push2"}

\* every instance is with the pool that constructed it: what the second
\* pool constructed (in its get() or prewarm()) is idle there, in a handle
\* that refers to it or in a drop returning to it, and nothing else is
Home ==
    /\ Range(other.vacant) \subseteq other.mine
    /\ Range(vacant) \cap other.mine = {}
    /\ \A t \in Threads :
           /\ BagToSet(other.held[t]) \subseteq other.mine
           /\ BagToSet(held[t]) \cap other.mine = {}
           /\ pc[t] = "drop_push2" => cur[t] \in other.mine
           /\ pc[t] = "drop_push" => cur[t] \notin other.mine

\* a step of an operation on one pool leaves the other pool as it is (the
\* thread that takes a step of an operation on the second pool enters or
\* leaves a place inside it, or goes once round the loop of its prewarm)
Frame ==
    IF \E t \in Threads :
           /\ pc[t] \in InsideOther \/ pc'[t] \in InsideOther
           /\ pc'[t] # pc[t] \/ cnt'[t] # cnt[t]
    THEN UNCHANGED <<vacant, lock, poisoned, held, destroyed>>
    ELSE UNCHANGED other

\* C18: with two pools used by the same threads, a handle returns its
\* instance to the pool whose get() made the handle, so no instance ever
\* moves from one pool to the other, and get(), prewarm() and handle drops
\* on one pool leave the idle sequence, the mutex and the handles of the
\* other pool unchanged.
C18_OwnPool == []Home /\ [][Frame]_vars

\* a thread holds a handle of the first pool, which has an idle instance,
\* while another thread returns an instance to the second pool
C18_Witness ==
    \E t \in Threads, u \in Threads :
        /\ NHeld(t) >= 1 /\ pc[t] = "idle" /\ Len(vacant) >= 1
        /\ u # t /\ pc[u] = "drop_push2" /\ cur[u] \in other.mine

\* -------------------------------------------------- claims on RefSpec
\* a step that thread t takes inside T::default() while prewarm holds the
\* RefMut: a re-entrant call, or the drop of a handle
Reentered(t) ==
    /\ pc[t] = "pw_push" /\ pc'[t] = "pw_push"
    /\ cnt[t] > 0 /\ cnt'[t] = cnt[t]

\* C19: on a single-owner pool, an access attempted while prewarm holds the
\* RefMut is refused at once: the idle sequence is touched by the holder
\* alone, the borrow stays with it, a re-entrant get() hands out a newly
\* constructed, cleared instance, a re-entrant drop destroys its instance
\* and a re-entrant prewarm() pushes nothing.
C19_Reentrant ==
    [][\A t \in Threads :
          Reentered(t) =>
              /\ vacant' = vacant
              /\ lock' = lock /\ lock = t
              /\ NHeld(t)' > NHeld(t) =>
                     /\ made' = made + 1
                     /\ held'[t] = held[t] (+) One(made + 1)
                     /\ len'[made + 1] = 0
              /\ NHeld(t)' < NHeld(t) =>
                     /\ made' = made
                     /\ \E i \in BagToSet(held[t]) :
                            /\ held'[t] = held[t] (-) One(i)
                            /\ i \in destroyed' /\ i \notin Range(vacant')
              /\ NHeld(t)' = NHeld(t) => made' = made]_vars

\* prewarm(2) has pushed instance 1; in its second T::default() two get()
\* calls constructed instances 2 and 3, and the handle on 2 was dropped
\* there and destroyed
C19_Witness ==
    /\ pc[1] = "pw_push" /\ cnt[1] >= 1 /\ lock = 1
    /\ vacant = <<1>>
    /\ destroyed = {2}
    /\ held[1] = One(3)

====
